---- MODULE Spec2Model ----
(***************************************************************************)
(* Model of the two scripts of the repository:                             *)
(*   scripts/filter_output.py    - unit-key canonicalisation and the row   *)
(*                                 filter over a merged workbook           *)
(*   scripts/merge_data_files.py - company-name extraction and the         *)
(*                                 thread-pool merge of the input files    *)
(*                                                                         *)
(* Text is a sequence of one-character tokens.  The module is written in   *)
(* ASCII, so the three CJK characters the unit pattern names are the       *)
(* tokens "hao" (U+53F7), "ji" (U+673A) and "zu" (U+7EC4); the status       *)
(* words are the tokens "RUN" (U+8FD0 U+884C) and "STOP" (U+505C U+8FD0).  *)
(* Python's None / pandas' missing value is the one-token sequence None.   *)
(***************************************************************************)
EXTENDS Integers, Sequences, FiniteSets, TLC

VARIABLES
    pc,          \* position of the pipeline that is running
    value,       \* _build_unit_key: the raw unit text (or None)
    unit_key,    \* _build_unit_key: the key returned
    filename,    \* extract_company_name: its argument
    company,     \* extract_company_name: its result
    args,        \* filter: the parsed command line
    df,          \* filter: the workbook read by load_dataframe
    unit_keys,   \* filter: args.unit_keys, set by _collect_unit_ids
    filtered,    \* filter: the table filter_dataframe returned
    refiltered,  \* filter: filter_dataframe applied to its own output
    directory,   \* merge: data_input, its files and their sheets
    max_workers, \* merge: size of the thread pool
    excel_files, \* merge: the files found, in discovery order
    queue,       \* merge: submitted tasks no worker has taken yet
    running,     \* merge: tasks a worker is executing
    results,     \* merge: the result of every finished future
    waiter,      \* merge: as_completed's finished batch and waiter list
    all_info,    \* merge: the three accumulation lists
    counts,      \* merge: success_count and fail_count
    output       \* merge: merged_data, data_output and the workbook written

keyVars == <<value, unit_key>>
nameVars == <<filename, company>>
filterVars == <<args, df, unit_keys, filtered, refiltered>>
poolVars == <<queue, running, results, waiter>>
mergeVars == <<directory, max_workers, excel_files, poolVars, all_info, counts, output>>

vars == <<pc, keyVars, nameVars, filterVars, mergeVars>>

\* ------------------------------------------------------------------ bounds

\* Longest raw unit text handed to _build_unit_key.
MaxTextLen == 5

\* Longest file name handed to extract_company_name.
MaxNameLen == 5

\* Dates are day numbers 1..MaxDate; in the end-to-end scenario day k is
\* 2026-01-(9+k).
MaxDate == 3

\* Most rows of a workbook whose rows are drawn from TieRows.
MaxRows == 2

\* Largest max_workers merge_data_files is called with.
MaxWorkers == 2

\* ------------------------------------------------------------------- text

None == <<"None">>

Hao == "hao"
Ji == "ji"
Zu == "zu"
Space == " "
Hyphen == "-"

Digits == {"0", "1", "3", "4"}

UnitAlphabet == Digits \cup {Space, Hao, Ji, Zu, Hyphen}

\* All texts over alphabet A of length at most n.
TextsUpTo(A, n) == UNION {[1..k -> A] : k \in 0..n}

Max(S) == CHOOSE m \in S : \A x \in S : x <= m
Min(S) == CHOOSE m \in S : \A x \in S : m <= x

\* str.strip(): the text without its leading and trailing whitespace.
Strip(s) ==
    LET ink == {i \in 1..Len(s) : s[i] # Space}
    IN  IF ink = {} THEN <<>> ELSE SubSeq(s, Min(ink), Max(ink))

DigitVal(c) ==
    CASE c = "0" -> 0 [] c = "1" -> 1 [] c = "2" -> 2 [] c = "3" -> 3
      [] c = "4" -> 4 [] c = "5" -> 5 [] c = "6" -> 6 [] c = "7" -> 7
      [] c = "8" -> 8 [] c = "9" -> 9

DigitChar(d) ==
    CASE d = 0 -> "0" [] d = 1 -> "1" [] d = 2 -> "2" [] d = 3 -> "3"
      [] d = 4 -> "4" [] d = 5 -> "5" [] d = 6 -> "6" [] d = 7 -> "7"
      [] d = 8 -> "8" [] d = 9 -> "9"

\* int(<digits>): the decimal value of a run of digits.
RECURSIVE ParseInt(_)
ParseInt(ds) ==
    IF ds = <<>> THEN 0
    ELSE 10 * ParseInt(SubSeq(ds, 1, Len(ds) - 1)) + DigitVal(ds[Len(ds)])

\* str(n) of a non-negative integer: its decimal digits, no leading zero.
RECURSIVE FormatInt(_)
FormatInt(n) ==
    IF n < 10 THEN <<DigitChar(n)>>
    ELSE Append(FormatInt(n \div 10), DigitChar(n % 10))

\* ------------------------------------------------- filter_output.py: keys

\* UNIT_NUMBER_ALIASES.get(number, number)
CanonicalNoAlias(number) == number

_canonical_unit_number(number) ==
    CASE number = 3 -> 1
      [] number = 4 -> 2
      [] OTHER -> number

\* Index of the last character of the maximal digit run that starts at i.
DigitRunEnd(s, i) ==
    Max({j \in i..Len(s) : \A k \in i..j : s[k] \in Digits})

\* First index at or after i that holds no whitespace (Len(s)+1 if none).
SkipSpaces(s, i) ==
    Min({j \in i..(Len(s) + 1) : j = Len(s) + 1 \/ s[j] # Space})

\* _UNIT_PATTERN_STRICT = (?P<num>\d+)\s*(?:hao)?\s*ji zu  matched at index i.
\* No two adjacent parts of the pattern accept a common character, so the
\* greedy match is the only one.
StrictMatchAt(s, i) ==
    /\ i \in 1..Len(s)
    /\ s[i] \in Digits
    /\ LET a == SkipSpaces(s, DigitRunEnd(s, i) + 1)
           b == IF a <= Len(s) /\ s[a] = Hao THEN a + 1 ELSE a
           c == SkipSpaces(s, b)
       IN  /\ c + 1 <= Len(s)
           /\ s[c] = Ji
           /\ s[c + 1] = Zu

\* _UNIT_PATTERN_GENERIC.findall(value): the maximal digit runs, left to
\* right, each as <<first index, last index>>.
DigitRuns(s) ==
    {<<i, DigitRunEnd(s, i)>> :
        i \in {k \in 1..Len(s) : s[k] \in Digits /\ (k = 1 \/ s[k - 1] \notin Digits)}}

FirstDigitRun(s) ==
    CHOOSE r \in DigitRuns(s) : \A q \in DigitRuns(s) : r[1] <= q[1]

\* fallback[-1]
LastDigitRun(s) ==
    CHOOSE r \in DigitRuns(s) : \A q \in DigitRuns(s) : q[1] <= r[1]

\* _extract_unit_number with the fallback taking the first digit run.
ExtractUnitNumberFirstRun(s) ==
    LET starts == {i \in 1..Len(s) : StrictMatchAt(s, i)}
    IN  IF starts # {}
        THEN LET i == Min(starts)
             IN  ParseInt(SubSeq(s, i, DigitRunEnd(s, i)))
        ELSE IF DigitRuns(s) # {}
        THEN LET r == FirstDigitRun(s) IN ParseInt(SubSeq(s, r[1], r[2]))
        ELSE -1

\* _extract_unit_number; -1 stands for the None it returns when the text
\* holds no digit.
_extract_unit_number(s) ==
    LET starts == {i \in 1..Len(s) : StrictMatchAt(s, i)}
    IN  IF starts # {}
        THEN LET i == Min(starts)       \* re.search: the leftmost match
             IN  ParseInt(SubSeq(s, i, DigitRunEnd(s, i)))
        ELSE IF DigitRuns(s) # {}
        THEN LET r == LastDigitRun(s) IN ParseInt(SubSeq(s, r[1], r[2]))
        ELSE -1

UnitPrefix == <<"U", "N", "I", "T", "-">>

_build_unit_key(v) ==
    IF v = None THEN None
    ELSE LET text == Strip(v)
         IN  IF text = <<>> THEN None
             ELSE LET number == _extract_unit_number(text)
                  IN  IF number = -1 THEN text
                      ELSE UnitPrefix \o FormatInt(_canonical_unit_number(number))

\* ------------------------------------------------ pipelines not running

NoTable == [rows |-> <<>>, has_time |-> FALSE, has_cols |-> FALSE]

IdleKey == value = None /\ unit_key = None

IdleName == filename = <<>> /\ company = <<>>

IdleFilter ==
    /\ args = [start |-> 0, end |-> 0, units |-> <<>>, s1 |-> None, s2 |-> None,
               status |-> <<>>]
    /\ df = NoTable
    /\ unit_keys = <<>>
    /\ filtered = NoTable
    /\ refiltered = NoTable

Kinds == {"basic", "day_ahead", "trade_price"}

NoTables == [k \in Kinds |-> <<>>]

NoWaiter == [installed |-> FALSE, finished |-> {}, finished_futures |-> <<>>]

\* tested: the run has evaluated "sheets_written == 0" (line 246).
NoOutput == [merged |-> NoTables, dir_created |-> FALSE, written |-> FALSE,
             sheets |-> {}, sheets_written |-> 0, tested |-> FALSE,
             placeholder |-> FALSE]

IdleMerge ==
    /\ directory = [exists |-> FALSE, files |-> <<>>]
    /\ max_workers = 0
    /\ excel_files = <<>>
    /\ queue = <<>>
    /\ running = {}
    /\ results = <<>>
    /\ waiter = NoWaiter
    /\ all_info = NoTables
    /\ counts = [success |-> 0, fail |-> 0]
    /\ output = NoOutput

\* ------------------------------------------ specification: _build_unit_key

InitUnitKey ==
    /\ pc = "key_call"
    /\ value \in TextsUpTo(UnitAlphabet, MaxTextLen) \cup {None}
    /\ unit_key = None
    /\ IdleName
    /\ IdleFilter
    /\ IdleMerge

BuildUnitKey ==
    /\ pc = "key_call"
    /\ unit_key' = _build_unit_key(value)
    /\ pc' = "key_done"
    /\ UNCHANGED <<value, nameVars, filterVars, mergeVars>>

NextUnitKey == BuildUnitKey

SpecUnitKey == InitUnitKey /\ [][NextUnitKey]_vars

\* ------------------------------------- merge_data_files.py: company name

NameAlphabet == {"A", "B", Hyphen, "."}

\* Indices of the hyphens of a file name.
HyphenAt(f) == {i \in 1..Len(f) : f[i] = Hyphen}

\* filename.split('-')[0]: the text before the first hyphen, the whole
\* name when it holds none.
SplitFirst(f) ==
    IF HyphenAt(f) = {} THEN f ELSE SubSeq(f, 1, Min(HyphenAt(f)) - 1)

\* The text before the last hyphen, as a greedy (.+)- would capture it.
ExtractCompanyGreedy(f) ==
    IF HyphenAt(f) = {} THEN f ELSE SubSeq(f, 1, Max(HyphenAt(f)) - 1)

\* re.match(r'([^-]+)-', filename): anchored at the start, one or more
\* characters other than a hyphen, then a hyphen; group(1) on a match,
\* else filename.split('-')[0].
extract_company_name(f) ==
    LET run == Max({j \in 0..Len(f) : \A k \in 1..j : f[k] # Hyphen})
    IN  IF run >= 1 /\ run < Len(f) /\ f[run + 1] = Hyphen
        THEN SubSeq(f, 1, run)
        ELSE SplitFirst(f)

\* -------------------------------------- specification: extract_company_name

InitCompany ==
    /\ pc = "name_call"
    /\ filename \in TextsUpTo(NameAlphabet, MaxNameLen)
    /\ company = <<>>
    /\ IdleKey
    /\ IdleFilter
    /\ IdleMerge

ExtractCompany ==
    /\ pc = "name_call"
    /\ company' = extract_company_name(filename)
    /\ pc' = "name_done"
    /\ UNCHANGED <<filename, keyVars, filterVars, mergeVars>>

NextCompany == ExtractCompany

SpecCompany == InitCompany /\ [][NextCompany]_vars

\* --------------------------------------------- filter_output.py: filter

\* A date (or time) cell that pd.to_datetime(errors="coerce") could not
\* parse, or that is empty: NaT / NaN.
NaT == 0

\* A row: its date, unit and status cells, and its time cell (the cell of
\* another column when the workbook has no time column).
Row(d, u, st, t) == [date |-> d, unit |-> u, status |-> st, time |-> t]

Table(rows, has_time) == [rows |-> rows, has_time |-> has_time, has_cols |-> TRUE]

Range(s) == {s[i] : i \in DOMAIN s}

\* _normalize_text: str(value).strip() where the cell holds a value, None
\* where it holds none.
_normalize_text(v) == IF v = None THEN None ELSE Strip(v)

\* _collect_unit_ids: args.units, then --s1 and --s2 when given; stripped,
\* the empty ones dropped, duplicates removed keeping the first.
RawUnits(a) ==
    a.units \o (IF a.s1 # None /\ a.s1 # <<>> THEN <<a.s1>> ELSE <<>>)
            \o (IF a.s2 # None /\ a.s2 # <<>> THEN <<a.s2>> ELSE <<>>)

Cleaned(a) ==
    LET raw == RawUnits(a)
        kept == {i \in 1..Len(raw) : Strip(raw[i]) # <<>>}
        nth[k \in 1..Cardinality(kept)] ==
            CHOOSE i \in kept : Cardinality({j \in kept : j < i}) = k - 1
    IN  [k \in 1..Cardinality(kept) |-> Strip(raw[nth[k]])]

Ordered(a) ==
    LET c == Cleaned(a)
        first == {i \in 1..Len(c) : \A j \in 1..(i - 1) : c[j] # c[i]}
        nth[k \in 1..Cardinality(first)] ==
            CHOOSE i \in first : Cardinality({j \in first : j < i}) = k - 1
    IN  [k \in 1..Cardinality(first) |-> c[nth[k]]]

_collect_unit_ids(a) == [k \in 1..Len(Ordered(a)) |-> _build_unit_key(Ordered(a)[k])]

\* date_mask = (date_series >= start_date) & (date_series <= end_date); a
\* missing date compares False.
DateMaskEndExclusive(r, start, end) == r.date # NaT /\ r.date >= start /\ r.date < end

DateMask(r, start, end) == r.date # NaT /\ r.date >= start /\ r.date <= end

\* The requested keys with nothing dropped.
UnitKeySetUnfiltered(keys) == Range(keys)

\* unit_key_set = {key for key in unit_keys if key}
UnitKeySet(keys) == {k \in Range(keys) : k # None /\ k # <<>>}

\* unit_key_series.isin(unit_key_set)
UnitMask(r, keys) == _build_unit_key(_normalize_text(r.unit)) \in UnitKeySet(keys)

\* status_series == status_value, or all True when status_value is empty.
StatusMask(r, status) ==
    LET status_value == Strip(status)
    IN  IF status_value # <<>> THEN _normalize_text(r.status) = status_value ELSE TRUE

Mask(r, keys, start, end, status) ==
    DateMask(r, start, end) /\ UnitMask(r, keys) /\ StatusMask(r, status)

IndexPermutations(n) == {p \in [1..n -> 1..n] : \A i, j \in 1..n : p[i] = p[j] => i = j}

\* Order of two time cells: a missing time sorts last (na_position="last").
TimeLess(t, u) == t # NaT /\ (u = NaT \/ t < u)

KeyLess(a, b, has_time) ==
    \/ a.date < b.date
    \/ has_time /\ a.date = b.date /\ TimeLess(a.time, b.time)

KeyEqual(a, b, has_time) == ~KeyLess(a, b, has_time) /\ ~KeyLess(b, a, has_time)

\* sort_values without the stability of the two-column sort.
SortValuesUnstable(rows, has_time) ==
    LET n == Len(rows)
        sorted(p) == \A i, j \in 1..n :
                         i < j => ~KeyLess(rows[p[j]], rows[p[i]], has_time)
    IN  {[i \in 1..n |-> rows[p[i]]] : p \in {q \in IndexPermutations(n) : sorted(q)}}

\* filtered.sort_values(sort_columns): the orders it may return.  With the
\* two columns [date, time] pandas sorts with a stable lexsort; with
\* the single column [date] it uses kind="quicksort", which is not stable, so
\* rows of equal date may come out in any order.
sort_values(rows, has_time) ==
    LET n == Len(rows)
        sorted(p) == \A i, j \in 1..n :
                         i < j => ~KeyLess(rows[p[j]], rows[p[i]], has_time)
        stable(p) == \A i, j \in 1..n :
                         (i < j /\ KeyEqual(rows[p[i]], rows[p[j]], has_time))
                             => p[i] < p[j]
    IN  {[i \in 1..n |-> rows[p[i]]] :
            p \in {q \in IndexPermutations(n) : sorted(q) /\ (has_time => stable(q))}}

\* filter_dataframe: the tables it may return (one per order the sort may
\* produce).
filter_dataframe(t, keys, start, end, status) ==
    LET keep(r) == Mask(r, keys, start, end, status)
    IN  {[t EXCEPT !.rows = out] : out \in sort_values(SelectSeq(t.rows, keep), t.has_time)}

\* ----------------------------------------------------- the filter's inputs

Run == <<"RUN">>
Stop == <<"STOP">>

U1 == <<"1", Hao, Ji, Zu>>
U3 == <<"3", Hao, Ji, Zu>>
U4 == <<"4", Hao, Ji, Zu>>

\* Unit cells: missing, empty, blank, units 3, 1 and 4 (one untrimmed,
\* without the separator), and a text without digits.
UnitTexts == {None, <<>>, <<Space>>, U3, U1, <<Space, "4", Ji, Zu>>, <<Hyphen>>}

StatusTexts == {None, Run, Stop, <<Run[1], Space>>}

\* Workbooks of one row: every combination of date, unit and status.
SingleRowTables ==
    {Table(<<Row(d, u, st, NaT)>>, FALSE) :
        d \in 0..MaxDate, u \in UnitTexts, st \in StatusTexts}

\* Rows that tie on the date, and on date and time, and differ otherwise.
TieRows ==
    { Row(1, U3, Run, 2), Row(1, U1, Run, 1), Row(1, U1, Run, 2),
      Row(2, U3, Run, 1), Row(1, U4, Stop, 1), Row(1, U3, Run, NaT) }

\* Workbooks of two to MaxRows rows, with and without the time column.
MultiRowTables ==
    {Table(rows, ht) :
        rows \in UNION {[1..n -> TieRows] : n \in 2..MaxRows}, ht \in BOOLEAN}

\* The workbook of the end-to-end scenario.
ScenarioTable ==
    Table(<<Row(1, U3, Run, NaT), Row(2, U4, Stop, NaT), Row(3, U1, Run, NaT)>>, FALSE)

EmptyTable == Table(<<>>, FALSE)

\* A workbook without the unit and status columns.
MissingColumnsTable == [rows |-> <<Row(1, None, None, NaT)>>, has_time |-> FALSE,
                        has_cols |-> FALSE]

Tables ==
    SingleRowTables \cup MultiRowTables
        \cup {ScenarioTable, EmptyTable, MissingColumnsTable}

Request(units, s1, s2) == [units |-> units, s1 |-> s1, s2 |-> s2]

\* --units / --s1 / --s2 as given on the command line.
Requests ==
    { Request(<<U3>>, None, None),
      Request(<<>>, <<"4">>, <<"4">>),
      Request(<<<<Space>>, <<Hyphen, Space>>>>, None, None),
      Request(<<<<Space>>>>, <<>>, None) }

StatusArgs == {Run, <<>>, <<Space, Stop[1]>>}

ArgSets ==
    {[start |-> a, end |-> b, units |-> q.units, s1 |-> q.s1, s2 |-> q.s2,
      status |-> st] :
        a \in 1..MaxDate, b \in 1..MaxDate, q \in Requests, st \in StatusArgs}

\* ------------------------------------------- specification: filter_output

InitFilter ==
    /\ pc = "filter_main"
    /\ args \in ArgSets
    /\ df \in Tables
    /\ unit_keys = <<>>
    /\ filtered = NoTable
    /\ refiltered = NoTable
    /\ IdleKey
    /\ IdleName
    /\ IdleMerge

\* main, lines 225-232: the argument checks, _collect_unit_ids, and the
\* status stripped.
ParseArgs ==
    /\ pc = "filter_main"
    /\ \/ /\ args.start > args.end \/ Cleaned(args) = <<>>    \* parser.error
          /\ pc' = "filter_aborted"
          /\ UNCHANGED <<args, unit_keys>>
       \/ /\ args.start <= args.end
          /\ Cleaned(args) # <<>>
          /\ unit_keys' = _collect_unit_ids(args)
          /\ args' = [args EXCEPT !.status = Strip(@)]
          /\ pc' = "filter_parsed"
    /\ UNCHANGED <<df, filtered, refiltered, keyVars, nameVars, mergeVars>>

\* load_dataframe: SystemExit when every date is missing (an empty sheet
\* included).
LoadDataframe ==
    /\ pc = "filter_parsed"
    /\ \/ /\ \A i \in 1..Len(df.rows) : df.rows[i].date = NaT
          /\ pc' = "filter_aborted"
       \/ /\ \E i \in 1..Len(df.rows) : df.rows[i].date # NaT
          /\ pc' = "filter_loaded"
    /\ UNCHANGED <<args, df, unit_keys, filtered, refiltered, keyVars, nameVars, mergeVars>>

\* main, lines 235-247: filter_dataframe (SystemExit when the unit or status
\* column is missing) and save_results.
FilterAndSave ==
    /\ pc = "filter_loaded"
    /\ \/ /\ ~df.has_cols
          /\ pc' = "filter_aborted"
          /\ UNCHANGED filtered
       \/ /\ df.has_cols
          /\ filtered' \in filter_dataframe(df, unit_keys, args.start, args.end, args.status)
          /\ pc' = "filter_saved"
    /\ UNCHANGED <<args, df, unit_keys, refiltered, keyVars, nameVars, mergeVars>>

\* filter_dataframe applied, with the same criteria, to the table it returned.
Refilter ==
    /\ pc = "filter_saved"
    /\ refiltered' \in
           filter_dataframe(filtered, unit_keys, args.start, args.end, args.status)
    /\ pc' = "filter_again"
    /\ UNCHANGED <<args, df, unit_keys, filtered, keyVars, nameVars, mergeVars>>

NextFilter == ParseArgs \/ LoadDataframe \/ FilterAndSave \/ Refilter

SpecFilter == InitFilter /\ [][NextFilter]_vars

\* ------------------------------------------- merge_data_files.py: merge

\* A sheet whose pd.read_excel raises (a missing sheet, a corrupt file).
ReadError == <<"ReadError">>

\* The value of the company-name column as the sheet holds it.
OldCompany == <<"old">>

\* Code points of the characters of the file names, for sorted().
Ord(c) ==
    CASE c = "-" -> 45 [] c = "." -> 46 [] c = "A" -> 65 [] c = "B" -> 66
      [] c = "l" -> 108 [] c = "s" -> 115 [] c = "x" -> 120 [] c = "y" -> 121
      [] c = "z" -> 122

NameLess(a, b) ==
    \E i \in 1..(Len(a) + 1) :
        /\ i <= Len(b)
        /\ \A j \in 1..(i - 1) : a[j] = b[j]
        /\ (i > Len(a) \/ Ord(a[i]) < Ord(b[i]))

\* sorted(...): the names of S in ascending order.
Sorted(S) ==
    [k \in 1..Cardinality(S) |->
        CHOOSE f \in S : Cardinality({g \in S : NameLess(g, f)}) = k - 1]

EndsWith(f, suffix) ==
    /\ Len(suffix) <= Len(f)
    /\ SubSeq(f, Len(f) - Len(suffix) + 1, Len(f)) = suffix

\* data_dir.glob("*" + suffix)
Glob(dir, suffix) == {f \in DOMAIN dir.files : EndsWith(f, suffix)}

\* excel_files = sorted(data_dir.glob("*.xlsx")) + sorted(data_dir.glob("*.xls"))
Discover(dir) ==
    Sorted(Glob(dir, <<".", "x", "l", "s", "x">>)) \o Sorted(Glob(dir, <<".", "x", "l", "s">>))

\* pd.read_excel(file_path, sheet_name, header=1): one row per cell line of
\* the sheet; a row knows the file, sheet and line it comes from.  A line
\* is "data" (cells filled), "name_only" (only the company-name cell is
\* filled) or "blank" (no cell filled).  blank says that every cell other
\* than the company name is null; company is the company-name cell.
RawRows(name, kind, cells) ==
    [i \in 1..Len(cells) |->
        [file |-> name, sheet |-> kind, n |-> i, blank |-> cells[i] # "data",
         company |-> IF cells[i] = "blank" THEN None ELSE OldCompany]]

\* clean_dataframe, on the rows: dropna(axis=0, how='all') drops the rows
\* in which every cell, the company name included, is null.  The
\* company-name column is not an "Unnamed" column, and it stays while a row
\* holds a value in it.
clean_dataframe(rows) ==
    LET kept(r) == ~(r.blank /\ r.company = None) IN SelectSeq(rows, kept)

\* read_sheet_optimized that leaves an existing company-name column alone.
ReadSheetKeepCompany(name, kind, company_name, dir) ==
    LET cells == dir.files[name][kind]
    IN  IF cells = ReadError THEN <<>>
        ELSE clean_dataframe(RawRows(name, kind, cells))

\* read_sheet_optimized: the cleaned rows with the company name set; the
\* empty table when the read raises or nothing is left.
read_sheet_optimized(name, kind, company_name, dir) ==
    LET cells == dir.files[name][kind]
    IN  IF cells = ReadError THEN <<>>
        ELSE LET rows == clean_dataframe(RawRows(name, kind, cells))
             IN  [i \in 1..Len(rows) |-> [rows[i] EXCEPT !.company = company_name]]

\* process_single_file in which one failed sheet empties the whole result.
ProcessSingleFileAllOrNothing(name, dir) ==
    LET company_name == extract_company_name(name)
        failed == \E k \in Kinds : dir.files[name][k] = ReadError
    IN  [company |-> company_name,
         result |-> [k \in Kinds |->
                        IF failed THEN <<>>
                        ELSE read_sheet_optimized(name, k, company_name, dir)]]

\* process_single_file: the company name and the three tables.
process_single_file(name, dir) ==
    LET company_name == extract_company_name(name)
    IN  [company |-> company_name,
         result |-> [k \in Kinds |-> read_sheet_optimized(name, k, company_name, dir)]]

\* The order in which the write stage takes the three tables (lines 231-244).
KindOrder == <<"basic", "day_ahead", "trade_price">>

\* pd.concat(tables, ignore_index=True)
RECURSIVE Concat(_)
Concat(tables) ==
    IF tables = <<>> THEN <<>> ELSE Head(tables) \o Concat(Tail(tables))

\* ------------------------------------------------------ the merge's inputs

NameAx == <<"A", "-", "x", ".", "x", "l", "s", "x">>
NameBy == <<"B", "-", "y", ".", "x", "l", "s", "x">>
NameAz == <<"A", "-", "z", ".", "x", "l", "s">>

NamePool == {NameAx, NameBy, NameAz}

Sheets(basic, day_ahead, trade_price) ==
    [basic |-> basic, day_ahead |-> day_ahead, trade_price |-> trade_price]

\* What a file may hold: rows in every sheet; two rows of basic information,
\* an empty sheet and a failing one; blank lines only and among the data;
\* three failing sheets; one line that holds a company name and nothing
\* else, beside a blank-only sheet and a failing one.
Profiles ==
    { Sheets(<<"data", "data">>, <<"data">>, <<"data">>),
      Sheets(<<"data", "data">>, <<>>, ReadError),
      Sheets(<<"blank">>, <<"blank", "data">>, <<>>),
      Sheets(ReadError, ReadError, ReadError),
      Sheets(<<"name_only">>, <<"blank">>, ReadError) }

Directories ==
    {[exists |-> FALSE, files |-> <<>>]}
        \cup {[exists |-> TRUE, files |-> f] :
                f \in UNION {[D -> Profiles] : D \in SUBSET NamePool}}

\* --------------------------------------- specification: merge_data_files

InitMerge ==
    /\ pc = "merge_start"
    /\ directory \in Directories
    /\ max_workers \in 1..MaxWorkers
    /\ excel_files = <<>>
    /\ queue = <<>>
    /\ running = {}
    /\ results = <<>>
    /\ waiter = NoWaiter
    /\ all_info = NoTables
    /\ counts = [success |-> 0, fail |-> 0]
    /\ output = NoOutput
    /\ IdleKey
    /\ IdleName
    /\ IdleFilter

\* Lines 99-133: the directory and file checks, and every file submitted to
\* the pool, in discovery order.
MergeStart ==
    /\ pc = "merge_start"
    /\ \/ /\ ~directory.exists
          /\ pc' = "merge_no_dir"
          /\ UNCHANGED <<excel_files, queue>>
       \/ /\ directory.exists
          /\ Discover(directory) = <<>>
          /\ pc' = "merge_no_files"
          /\ UNCHANGED <<excel_files, queue>>
       \/ /\ directory.exists
          /\ Discover(directory) # <<>>
          /\ excel_files' = Discover(directory)
          /\ queue' = [i \in 1..Len(Discover(directory)) |-> i]
          /\ pc' = "merge_submitted"
    /\ UNCHANGED <<directory, max_workers, running, results, waiter, all_info,
                   counts, output, keyVars, nameVars, filterVars>>

\* ThreadPoolExecutor: a free worker takes the oldest submitted task.
WorkerStart ==
    /\ pc \in {"merge_submitted", "merge_draining"}
    /\ queue # <<>>
    /\ Cardinality(running) < max_workers
    /\ running' = running \cup {Head(queue)}
    /\ queue' = Tail(queue)
    /\ UNCHANGED <<pc, directory, max_workers, excel_files, results, waiter,
                   all_info, counts, output, keyVars, nameVars, filterVars>>

\* A worker returns from process_single_file: the future is finished, and a
\* waiter as_completed has installed is told, in finishing order.
WorkerFinish(i) ==
    /\ i \in running
    /\ running' = running \ {i}
    /\ results' = [j \in DOMAIN results \cup {i} |->
                      IF j = i THEN process_single_file(excel_files[i], directory)
                      ELSE results[j]]
    /\ waiter' = IF waiter.installed
                 THEN [waiter EXCEPT !.finished_futures = Append(@, i)]
                 ELSE waiter
    /\ UNCHANGED <<pc, directory, max_workers, excel_files, queue, all_info,
                   counts, output, keyVars, nameVars, filterVars>>

\* as_completed(future_to_file), first step: the futures already finished
\* are collected into a set, and the waiter is installed on the others.
AsCompleted ==
    /\ pc = "merge_submitted"
    /\ waiter' = [installed |-> TRUE, finished |-> DOMAIN results,
                  finished_futures |-> <<>>]
    /\ pc' = "merge_draining"
    /\ UNCHANGED <<directory, max_workers, excel_files, queue, running, results,
                   all_info, counts, output, keyVars, nameVars, filterVars>>

\* The loop's turn on future i with every table appended, the empty ones
\* too.
ConsumeAppendAll(i) ==
    LET result == results[i].result
        has_rows == \E k \in Kinds : Len(result[k]) > 0
    IN  /\ counts' = IF has_rows THEN [counts EXCEPT !.success = @ + 1]
                     ELSE [counts EXCEPT !.fail = @ + 1]
        /\ all_info' = [k \in Kinds |-> Append(all_info[k], result[k])]

\* Lines 137-161, one turn of the loop on future i: the counts, and each
\* non-empty table appended to its list.
Consume(i) ==
    LET result == results[i].result
        has_rows == \E k \in Kinds : Len(result[k]) > 0
    IN  /\ counts' = IF has_rows THEN [counts EXCEPT !.success = @ + 1]
                     ELSE [counts EXCEPT !.fail = @ + 1]
        /\ all_info' = [k \in Kinds |->
                           IF result[k] # <<>> THEN Append(all_info[k], result[k])
                           ELSE all_info[k]]

\* as_completed yields the next future: first those of the finished set, in
\* the set's iteration order (any order), then the others as they finish.
Drain ==
    /\ pc = "merge_draining"
    /\ \/ \E i \in waiter.finished :
            /\ Consume(i)
            /\ waiter' = [waiter EXCEPT !.finished = @ \ {i}]
       \/ /\ waiter.finished = {}
          /\ waiter.finished_futures # <<>>
          /\ Consume(Head(waiter.finished_futures))
          /\ waiter' = [waiter EXCEPT !.finished_futures = Tail(@)]
    /\ UNCHANGED <<pc, directory, max_workers, excel_files, queue, running, results,
                   output, keyVars, nameVars, filterVars>>

\* Lines 173-260, after the last future: return when no list holds a table;
\* else concatenate and clean each list, create data_output and write the
\* workbook: the non-empty tables in the order of KindOrder, then the
\* placeholder sheet when sheets_written is 0.  An exception while saving is
\* caught and ends the run: at step 0 the writer cannot be opened, at step
\* n in 1..3 the n-th table's to_excel raises, at step 4 the placeholder's
\* to_excel or the writer's close raises.
Conclude ==
    /\ pc = "merge_draining"
    /\ counts.success + counts.fail = Len(excel_files)
    /\ LET keys == {k \in Kinds : all_info[k] # <<>>}
           merged == [k \in Kinds |-> clean_dataframe(Concat(all_info[k]))]
           sheets == {k \in keys : merged[k] # <<>>}
           before(n) == {KindOrder[j] : j \in 1..(n - 1)} \cap sheets
       IN  \/ /\ keys = {}
              /\ pc' = "merge_no_data"
              /\ UNCHANGED output
           \/ /\ keys # {}
              /\ pc' = "merge_done"
              /\ output' = [merged |-> merged, dir_created |-> TRUE, written |-> TRUE,
                            sheets |-> sheets, sheets_written |-> Cardinality(sheets),
                            tested |-> TRUE, placeholder |-> (sheets = {})]
           \/ /\ keys # {}
              /\ pc' = "merge_save_failed"
              /\ \E n \in 0..4 :
                    /\ n \in 1..3 => KindOrder[n] \in sheets
                    /\ output' = [merged |-> merged, dir_created |-> TRUE,
                                  written |-> FALSE, sheets |-> before(n),
                                  sheets_written |-> Cardinality(before(n)),
                                  tested |-> (n = 4),
                                  placeholder |-> (n = 4 /\ sheets = {})]
    /\ UNCHANGED <<directory, max_workers, excel_files, queue, running, results,
                   waiter, all_info, counts, keyVars, nameVars, filterVars>>

NextMerge ==
    \/ MergeStart
    \/ WorkerStart
    \/ \E i \in running : WorkerFinish(i)
    \/ AsCompleted
    \/ Drain
    \/ Conclude

SpecMerge == InitMerge /\ [][NextMerge]_vars

\* ------------------------------------------------------------------ claims

\* The alias table as the specification states it.
ClaimAlias(n) == IF n = 3 THEN 1 ELSE IF n = 4 THEN 2 ELSE n

UnitKeyOf(n) == UnitPrefix \o FormatInt(n)

\* v is <spaces> ds <suffix> <spaces> with ds a run of digits at a+1..a+n.
NumberedUnitAt(v, a, n, suffix) ==
    /\ n >= 1
    /\ a + n + Len(suffix) <= Len(v)
    /\ \A i \in 1..a : v[i] = Space
    /\ \A i \in (a + 1)..(a + n) : v[i] \in Digits
    /\ SubSeq(v, a + n + 1, a + n + Len(suffix)) = suffix
    /\ \A i \in (a + n + Len(suffix) + 1)..Len(v) : v[i] = Space

\* C3: a raw text "<n> hao ji zu" or "<n> ji zu", with optional surrounding
\* whitespace, gets the key "UNIT-" followed by alias(n), where alias(3)=1,
\* alias(4)=2 and alias(n)=n otherwise.
C3_NumberedUnitKey ==
    (pc = "key_done" /\ value # None) =>
        \A a \in 0..Len(value), n \in 1..Len(value) :
            \A suffix \in {<<Hao, Ji, Zu>>, <<Ji, Zu>>} :
                NumberedUnitAt(value, a, n, suffix) =>
                    unit_key = UnitKeyOf(ClaimAlias(ParseInt(SubSeq(value, a + 1, a + n))))

C3_Witness ==
    /\ pc = "key_done"
    /\ value = <<Space, "3", Hao, Ji, Zu>>
    /\ unit_key = <<"U", "N", "I", "T", "-", "1">>

\* The text holds the structured pattern somewhere.
HasStrictPattern(s) == \E i \in 1..Len(s) : StrictMatchAt(s, i)

\* The digit run of s that ends at the last digit of s.
ClaimLastRun(s) ==
    LET e == Max({i \in 1..Len(s) : s[i] \in Digits})
        b == Min({i \in 1..e : \A k \in i..e : s[k] \in Digits})
    IN  SubSeq(s, b, e)

\* C4: without the structured pattern, a text holding digits gets the key of
\* its LAST digit run, passed through the alias table; with the structured
\* pattern anywhere in the text, the pattern's number decides, whatever
\* digit run follows it.
C4_LastDigitRunFallback ==
    (pc = "key_done" /\ value # None) =>
        LET s == Strip(value)
        IN  /\ (~HasStrictPattern(s) /\ \E i \in 1..Len(s) : s[i] \in Digits)
                    => unit_key = UnitKeyOf(ClaimAlias(ParseInt(ClaimLastRun(s))))
            /\ \A i \in 1..Len(s) :
                   (StrictMatchAt(s, i) /\ \A j \in 1..(i - 1) : ~StrictMatchAt(s, j))
                    => unit_key =
                         UnitKeyOf(ClaimAlias(ParseInt(SubSeq(s, i, DigitRunEnd(s, i)))))

\* "40-03": two digit runs, no unit suffix; the last run, 03, is unit 3.
C4_Witness ==
    /\ pc = "key_done"
    /\ value = <<"4", "0", Hyphen, "0", "3">>
    /\ unit_key = <<"U", "N", "I", "T", "-", "1">>

\* C7: for a file name "<X>-<rest>", X being the text before the first
\* hyphen (the empty X included), extract_company_name returns exactly X;
\* for a name without a hyphen it returns the whole name.
C7_CompanyIsTextBeforeFirstHyphen ==
    pc = "name_done" =>
        /\ \A i \in 1..Len(filename) :
               (filename[i] = Hyphen /\ \A j \in 1..(i - 1) : filename[j] # Hyphen)
                    => company = SubSeq(filename, 1, i - 1)
        /\ (\A i \in 1..Len(filename) : filename[i] # Hyphen) => company = filename

\* "A-B-.": two hyphens, the company is the text before the first.
C7_Witness ==
    /\ pc = "name_done"
    /\ filename = <<"A", Hyphen, "B", Hyphen, ".">>
    /\ company = <<"A">>

\* Number of times row r occurs in a sequence of rows.
Count(rows, r) == Cardinality({i \in 1..Len(rows) : rows[i] = r})

SameRows(a, b) == \A r \in Range(a) \cup Range(b) : Count(a, r) = Count(b, r)

ScenarioArgs ==
    [start |-> 1, end |-> 3, units |-> <<U3>>, s1 |-> None, s2 |-> None,
     status |-> Run]

InScenario == pc = "filter_saved" /\ df = ScenarioTable /\ args = ScenarioArgs

\* C1 as stated: in the end-to-end scenario (rows of 3-hao on day 1 running,
\* 4-hao on day 2 stopped, 1-hao on day 3 running; days 1 to 3, unit 3-hao,
\* status running) the filter returns exactly the first row.
C1_Original ==
    InScenario => filtered.rows = <<Row(1, U3, Run, NaT)>>

\* C1 amended: the filter returns two rows, the first and the third, in
\* that order; only the row of 4-hao is excluded, by its status.  The
\* requested 3-hao and the third row's 1-hao both have the key UNIT-1.
C1_ScenarioKeepsAliasedUnit ==
    InScenario => filtered.rows = <<Row(1, U3, Run, NaT), Row(3, U1, Run, NaT)>>

C1_Witness ==
    /\ InScenario
    /\ unit_keys = <<UnitKeyOf(1)>>
    /\ Len(filtered.rows) = 2

\* The three conditions of the filter predicate, as the specification
\* states them.
ClaimKeep(r) ==
    /\ r.date # NaT /\ args.start <= r.date /\ r.date <= args.end
    /\ _build_unit_key(r.unit) \in Range(unit_keys)
    /\ \/ args.status = <<>>
       \/ r.status # None /\ Strip(r.status) = args.status

\* C2: the rows filter_dataframe returns are exactly the input rows with
\* start <= date <= end (both ends included), a unit key among the requested
\* keys, and a trimmed status equal to the expected one; the status
\* condition holds for every row when the expected status is empty.
C2_ReturnsExactlyMatchingRows ==
    pc \in {"filter_saved", "filter_again"} =>
        \A r \in Range(df.rows) \cup Range(filtered.rows) :
            Count(filtered.rows, r) = IF ClaimKeep(r) THEN Count(df.rows, r) ELSE 0

\* A row dated exactly end-date is kept and another row is dropped.
C2_Witness ==
    /\ pc = "filter_saved"
    /\ args.start < args.end
    /\ \E i \in 1..Len(filtered.rows) : filtered.rows[i].date = args.end
    /\ Len(filtered.rows) < Len(df.rows)

BlankUnit(r) == r.unit = None \/ Strip(r.unit) = <<>>

\* Requested keys a caller may pass, the null and the empty key included.
ProbeKeys == {None, <<>>, UnitKeyOf(1), <<Hyphen>>}

\* C5: a row whose unit text is null, empty or whitespace-only gets a null
\* key, matches no list of requested keys (null and literal keys included),
\* and is never in the table filter_dataframe returns.
C5_BlankUnitNeverRetained ==
    /\ \A i \in 1..Len(df.rows) :
           BlankUnit(df.rows[i]) =>
               /\ _build_unit_key(_normalize_text(df.rows[i].unit)) = None
               /\ \A ks \in [1..2 -> ProbeKeys] : ~UnitMask(df.rows[i], ks)
    /\ pc \in {"filter_saved", "filter_again"} =>
           \A i \in 1..Len(filtered.rows) : ~BlankUnit(filtered.rows[i])

\* A whitespace-only unit in range, any status accepted, and nothing kept.
C5_Witness ==
    /\ pc = "filter_saved"
    /\ Len(df.rows) = 1
    /\ df.rows[1].unit = <<Space>>
    /\ DateMask(df.rows[1], args.start, args.end)
    /\ args.status = <<>>
    /\ filtered.rows = <<>>

\* C6 as stated: filtering the filtered table again with the same criteria
\* gives the identical table, rows and order.
C6_Original ==
    pc = "filter_again" => refiltered = filtered

DistinctDates(rows) ==
    \A i, j \in 1..Len(rows) : rows[i].date = rows[j].date => i = j

\* C6 amended: filtering the filtered table again gives the same rows, each
\* as many times, sorted by date; the order is identical when the table has
\* the time column (the two-column sort is stable) or no two retained rows
\* share a date.  With the single date column, rows of equal date may come
\* out in another relative order.
C6_IdempotentUpToDateTies ==
    pc = "filter_again" =>
        /\ SameRows(refiltered.rows, filtered.rows)
        /\ \A i, j \in 1..Len(refiltered.rows) :
               i < j => refiltered.rows[i].date <= refiltered.rows[j].date
        /\ (filtered.has_time \/ DistinctDates(filtered.rows)) => refiltered = filtered

\* Two retained rows tie on date and time and keep their order.
C6_Witness ==
    /\ pc = "filter_again"
    /\ filtered.has_time
    /\ \E i, j \in 1..Len(filtered.rows) :
           /\ i < j
           /\ filtered.rows[i] # filtered.rows[j]
           /\ KeyEqual(filtered.rows[i], filtered.rows[j], TRUE)
    /\ refiltered = filtered

\* The text of a file name before its first hyphen.
ClaimCompany(name) ==
    LET i == CHOOSE h \in 1..Len(name) :
                 name[h] = Hyphen /\ \A j \in 1..(h - 1) : name[j] # Hyphen
    IN  SubSeq(name, 1, i - 1)

\* The rows file name contributes to the merged table of a sheet kind: its
\* rows of that sheet that are not entirely empty, in their order, tagged
\* with its company; none when the sheet cannot be read.
ExpectedBlock(name, kind) ==
    LET cells == directory.files[name][kind]
        line(i) == [file |-> name, sheet |-> kind, n |-> i,
                    blank |-> cells[i] = "name_only",
                    company |-> ClaimCompany(name)]
        data == {i \in 1..Len(cells) : cells[i] # "blank"}
    IN  IF cells = ReadError THEN <<>>
        ELSE [j \in 1..Cardinality(data) |->
                 line(CHOOSE i \in data : Cardinality({h \in data : h < i}) = j - 1)]

Contributors(kind) == {f \in DOMAIN directory.files : ExpectedBlock(f, kind) # <<>>}

\* The blocks of the files of order, one after the other.
Blocks(order, kind) == Concat([i \in 1..Len(order) |-> ExpectedBlock(order[i], kind)])

\* C8: whatever the worker count and the order in which the tasks complete,
\* each merged table is the concatenation, in some order of the files, of
\* the blocks of the files whose table of that sheet kind is non-empty: only
\* rows of that kind, each tagged with its own file's company, each file's
\* rows contiguous and in their in-file order.
C8_MergedIsBlocksInSomeOrder ==
    pc = "merge_done" =>
        \A k \in Kinds :
            LET S == Contributors(k)
            IN  \E order \in {o \in [1..Cardinality(S) -> S] :
                                 \A i, j \in DOMAIN o : o[i] = o[j] => i = j} :
                    output.merged[k] = Blocks(order, k)

\* Two workers, A-x.xlsx and B-y.xlsx with two rows of basic information
\* each, merged as B, B, A, A.
C8_Witness ==
    /\ pc = "merge_done"
    /\ max_workers = 2
    /\ excel_files = <<NameAx, NameBy>>
    /\ Len(output.merged["basic"]) = 4
    /\ [i \in 1..4 |-> output.merged["basic"][i].company]
           = <<<<"B">>, <<"B">>, <<"A">>, <<"A">>>>

\* C9: with a single worker the blocks of every merged table are in
\* discovery order (the sorted *.xlsx files, then the sorted *.xls files).
C9_SingleWorkerDiscoveryOrder ==
    (pc = "merge_done" /\ max_workers = 1) =>
        \A k \in Kinds : output.merged[k] = Blocks(excel_files, k)

NoDataAnywhere ==
    \A f \in DOMAIN directory.files : \A k \in Kinds : ExpectedBlock(f, k) = <<>>

\* C10: a read failure on one file and sheet counts as zero rows for that
\* combination only: every row of every readable sheet of every file is in
\* the merged table of its kind, once, and no row of a failed combination
\* is; and when every combination fails or is empty the run returns with
\* neither the output directory created nor the workbook written.
C10_FailureIsolatedAndNoEmptyWrite ==
    /\ pc = "merge_done" =>
           \A k \in Kinds :
               /\ \A f \in DOMAIN directory.files :
                      \A i \in 1..Len(ExpectedBlock(f, k)) :
                          Count(output.merged[k], ExpectedBlock(f, k)[i]) = 1
               /\ \A i \in 1..Len(output.merged[k]) :
                      /\ output.merged[k][i].sheet = k
                      /\ directory.files[output.merged[k][i].file][k] # ReadError
    /\ NoDataAnywhere => /\ ~output.dir_created
                         /\ ~output.written
                         /\ pc \notin {"merge_done", "merge_save_failed"}

\* A-x.xlsx with a failing sheet and two rows of basic information, beside
\* a file whose three sheets all fail: the two rows are in the output.
C10_Witness ==
    /\ pc = "merge_done"
    /\ DOMAIN directory.files = {NameAx, NameBy}
    /\ directory.files[NameAx] = Sheets(<<"data", "data">>, <<>>, ReadError)
    /\ directory.files[NameBy] = Sheets(ReadError, ReadError, ReadError)
    /\ Len(output.merged["basic"]) = 2
    /\ output.sheets = {"basic"}

\* The run has created data_output and opened, or tried to open, the writer.
AtWriteStage == pc \in {"merge_done", "merge_save_failed"}

\* C11: whenever merge_data_files reaches the write stage, at least one of
\* the three data sheets is written (sheets_written >= 1 when line 246 tests
\* it), so the placeholder sheet is never written in any run: every table
\* appended to an accumulation list is non-empty and carries a non-null
\* company name in every row, so the cleanup after the concatenation
\* removes no row and empties no table, and the run returns before the
\* write stage when the three accumulation lists are empty.
C11_PlaceholderNeverWritten ==
    /\ ~output.placeholder
    /\ output.tested => output.sheets_written >= 1
    /\ pc = "merge_done" => output.sheets # {}
    /\ \A k \in Kinds : \A t \in 1..Len(all_info[k]) :
           /\ all_info[k][t] # <<>>
           /\ \A i \in 1..Len(all_info[k][t]) : all_info[k][t][i].company # None
    /\ AtWriteStage =>
           /\ \E k \in Kinds : all_info[k] # <<>>
           /\ \A k \in Kinds :
                  /\ output.merged[k] = Concat(all_info[k])
                  /\ all_info[k] # <<>> => output.merged[k] # <<>>
    /\ pc = "merge_no_data" =>
           /\ \A k \in Kinds : all_info[k] = <<>>
           /\ ~output.dir_created /\ ~output.tested

\* The only file holds one line with nothing but a company name, beside a
\* blank-only sheet and a failing one: the line survives both cleanups and
\* the workbook gets the basic-information sheet, not the placeholder.
C11_Witness ==
    /\ pc = "merge_done"
    /\ DOMAIN directory.files = {NameAx}
    /\ directory.files[NameAx] = Sheets(<<"name_only">>, <<"blank">>, ReadError)
    /\ Len(output.merged["basic"]) = 1
    /\ output.merged["basic"][1].blank
    /\ output.merged["basic"][1].company = <<"A">>
    /\ output.tested
    /\ output.sheets_written = 1
    /\ ~output.placeholder

====
